---- MODULE Spec2Model ----
(***************************************************************************)
(* Model of the backend services of medical-imaging-web:                   *)
(*   - PatientService (apps/backend/src/services/patient.service.ts), in   *)
(*     database-less mode (the memoryPatients map) and in database mode    *)
(*     (the patients table behind the Supabase client);                    *)
(*   - UploadService (apps/backend/src/services/upload.service.ts);        *)
(*   - the diagnoses table and its CHECK constraints (supabase_schema.sql).*)
(*                                                                         *)
(* The patient service is run in both storage modes side by side: every    *)
(* call is applied, with the same arguments and the same clock reading, to *)
(* the in-memory map and to the patients table, and the outcome of each is *)
(* recorded (memResult, dbResult).  Each of the two halves is the program  *)
(* started with NO_DB=true, respectively without it.                       *)
(***************************************************************************)
EXTENDS Integers, Sequences, FiniteSets, TLC

(***************************************************************************)
(* Bounds of the model.                                                    *)
(***************************************************************************)
\* Date.now() ranges over 0..MaxTime.
MaxTime == 1
\* Clock readings per calendar day (the date field is the day of the reading).
TicksPerDay == 2
\* Filenames the upload service is called with.
NumFiles == 2
\* Rows the diagnoses table holds at most.
MaxDiagnoses == 1
\* updatePatient requests in flight together.
NumRequests == 2

(***************************************************************************)
(* JavaScript values.                                                      *)
(***************************************************************************)
Undefined == "<undefined>"
Null == "<null>"
JsFalse == "<false>"

\* The values JavaScript treats as false in `a || b` and `if (a)`.
Falsy(v) == v \in {"", JsFalse, Null, Undefined}

\* a || b
JsOr(a, b) == IF Falsy(a) THEN b ELSE a

\* Array.prototype.join(', ')
RECURSIVE Join(_)
Join(arr) ==
    IF arr = <<>> THEN ""
    ELSE IF Len(arr) = 1 THEN arr[1]
    ELSE arr[1] \o ", " \o Join(Tail(arr))

(***************************************************************************)
(* Requests.  An optional field is a presence flag and a value.            *)
(***************************************************************************)
Names == {"", "A"}
Histories == {<<>>, <<"x", "y">>}

\* CreatePatientRequest: name, medicalHistory?
CreateRequests ==
    {d \in [name : Names, hasMedicalHistory : BOOLEAN,
            medicalHistory : Histories] :
        ~d.hasMedicalHistory => d.medicalHistory = <<>>}

\* UpdatePatientRequest without its id: name?, medicalHistory?
UpdateRequests ==
    {d \in [hasName : BOOLEAN, name : Names,
            hasMedicalHistory : BOOLEAN, medicalHistory : Histories] :
        /\ ~d.hasName => d.name = ""
        /\ ~d.hasMedicalHistory => d.medicalHistory = <<>>}

NoData ==
    [hasName |-> FALSE, name |-> "", hasMedicalHistory |-> FALSE,
     medicalHistory |-> <<>>]

\* data.medicalHistory?.join(', ')
JoinedHistory(data) ==
    IF data.hasMedicalHistory THEN Join(data.medicalHistory) ELSE Undefined

\* data.name of an UpdatePatientRequest
NameOf(data) == IF data.hasName THEN data.name ELSE Undefined

\* `patient-${now}`
PatientId(t) == "patient-" \o ToString(t)

\* new Date().toISOString().split('T')[0]
DateOf(t) == "day-" \o ToString(t \div TicksPerDay)

AllIds == {PatientId(t) : t \in 0..MaxTime}

(***************************************************************************)
(* State.                                                                  *)
(***************************************************************************)
VARIABLES
    modes,          \* the storage modes run: "NO_DB" (process.env.NO_DB is
                    \* 'true'), "DB", or both side by side on the same calls
    now,            \* the clock: what Date.now() returns
    memoryPatients, \* the NO_DB map: id -> Patient
    dbPatients,     \* the patients table: patient_id -> PatientRow
    lastCall,       \* the last service call and its arguments
    memResult,      \* its outcome in database-less mode
    dbResult,       \* its outcome in database mode
    trackedMem,     \* the patient a createPatient returned (NO_DB), kept until
                    \* an update or delete of its id is called
    trackedDb,      \* the same in database mode
    replacedMem     \* a later createPatient (NO_DB) returned trackedMem's id

patientVars ==
    <<modes, now, memoryPatients, dbPatients, lastCall, memResult, dbResult,
      trackedMem, trackedDb, replacedMem>>

VARIABLES
    localFiles,     \* the filenames present in the uploads directory
    bucket,         \* the object names present in the storage bucket
    uploadCall,     \* the last upload-service call and what storage did
    uploadResult,   \* its outcome
    warned,         \* the last call logged the storage delete warning
    processed       \* the filenames processImage has succeeded for

uploadVars ==
    <<localFiles, bucket, uploadCall, uploadResult, warned, processed>>

VARIABLES
    diagnoses,      \* the diagnoses table: row id -> its numeric columns
    diagStatement   \* the last statement on it and what became of it

diagVars == <<diagnoses, diagStatement>>

VARIABLES
    requests        \* concurrent updatePatient requests (NO_DB) in flight

concVars == <<requests>>

vars == <<patientVars, uploadVars, diagVars, concVars>>

(***************************************************************************)
(* Patient records and rows.  The update timestamps (updatedAt, set to     *)
(* new Date() at every write; updated_at, set by the BEFORE UPDATE         *)
(* trigger) are written and never read by the service: they are left out.  *)
(* createdAt is the clock reading of the creation.                         *)
(***************************************************************************)
NoPatient ==
    [id |-> Undefined, name |-> Undefined, history |-> Undefined,
     date |-> Undefined, index |-> Undefined, biopsyConfirmed |-> Undefined,
     doctor |-> Undefined, createdAt |-> -1]

NoRow ==
    [patient_id |-> Null, name |-> Null, history |-> Null, date |-> Null,
     index |-> Null, biopsy_confirmed |-> Null, doctor |-> Null,
     created_at |-> -1]

fromDbFormat(row) ==
    [id |-> row.patient_id,
     name |-> row.name,
     history |-> row.history,
     date |-> row.date,
     index |-> row.index,
     biopsyConfirmed |-> JsOr(row.biopsy_confirmed, Undefined),
     doctor |-> JsOr(row.doctor, Undefined),
     createdAt |-> row.created_at]

toDbFormat(patient) ==
    [patient_id |-> patient.id,
     name |-> patient.name,
     history |-> patient.history,
     date |-> patient.date,
     index |-> patient.index,
     biopsy_confirmed |-> JsOr(patient.biopsyConfirmed, Null),
     doctor |-> JsOr(patient.doctor, Null)]

(***************************************************************************)
(* Outcomes of a service call.                                             *)
(***************************************************************************)
NoError == "<none>"

Returned(p) ==
    [status |-> "ok", message |-> NoError, patient |-> p, list |-> <<>>]
ReturnedList(l) ==
    [status |-> "ok", message |-> NoError, patient |-> NoPatient, list |-> l]
ReturnedVoid ==
    [status |-> "ok", message |-> NoError, patient |-> NoPatient, list |-> <<>>]
\* createError('Patient not found', 404)
NotFound ==
    [status |-> "404", message |-> "Patient not found", patient |-> NoPatient,
     list |-> <<>>]
\* throw error: the client's error object, as it is
ClientError(e) ==
    [status |-> "client-error", message |-> e, patient |-> NoPatient,
     list |-> <<>>]
NoResult ==
    [status |-> "none", message |-> NoError, patient |-> NoPatient,
     list |-> <<>>]

(***************************************************************************)
(* The Supabase client on the patients table.  A statement answers         *)
(* {data, error} and leaves the table as `table`.  A transport failure     *)
(* (fail) reaches no row.  .single() answers the error PGRST116 unless     *)
(* exactly one row comes back; patient_id is UNIQUE (23505).               *)
(***************************************************************************)
TransportError == "fetch failed"
NoRowsError == "PGRST116"
UniqueViolation == "23505"

Answer(d, e, t) == [data |-> d, error |-> e, table |-> t]

Put(table, key, value) == [k \in DOMAIN table \cup {key} |->
                              IF k = key THEN value ELSE table[k]]
Remove(table, key) == [k \in DOMAIN table \ {key} |-> table[k]]

\* .from('patients').insert(ins).select('*').single()
dbInsert(table, ins, fail, t) ==
    IF fail THEN Answer(NoRow, TransportError, table)
    ELSE IF ins.patient_id \in DOMAIN table
         THEN Answer(NoRow, UniqueViolation, table)
    ELSE LET row == [patient_id |-> ins.patient_id, name |-> ins.name,
                     history |-> ins.history, date |-> ins.date,
                     index |-> ins.index,
                     biopsy_confirmed |-> ins.biopsy_confirmed,
                     doctor |-> ins.doctor,
                     created_at |-> t]
         IN Answer(row, NoError, Put(table, ins.patient_id, row))

\* .from('patients').select('*').eq('patient_id', id).single()
dbSelectSingle(table, id, fail) ==
    IF fail THEN Answer(NoRow, TransportError, table)
    ELSE IF id \notin DOMAIN table THEN Answer(NoRow, NoRowsError, table)
    ELSE Answer(table[id], NoError, table)

\* .from('patients').update(payload).eq('patient_id', id).select('*').single()
\* An update that sets no column either answers the untouched row or answers
\* no row (emptyAnswersRow).
dbUpdateSingle(table, payload, id, fail, emptyAnswersRow) ==
    IF fail THEN Answer(NoRow, TransportError, table)
    ELSE IF id \notin DOMAIN table THEN Answer(NoRow, NoRowsError, table)
    ELSE IF ~payload.hasName /\ ~payload.hasHistory
         THEN IF emptyAnswersRow THEN Answer(table[id], NoError, table)
              ELSE Answer(NoRow, NoRowsError, table)
    ELSE LET row == [table[id] EXCEPT
                       !.name = IF payload.hasName THEN payload.name ELSE @,
                       !.history = IF payload.hasHistory THEN payload.history
                                   ELSE @]
         IN Answer(row, NoError, Put(table, id, row))

\* .from('patients').delete().eq('patient_id', id).select('*').single()
dbDeleteSingle(table, id, fail) ==
    IF fail THEN Answer(NoRow, TransportError, table)
    ELSE IF id \notin DOMAIN table THEN Answer(NoRow, NoRowsError, table)
    ELSE Answer(table[id], NoError, Remove(table, id))

\* .from('patients').select('*').order('created_at', { ascending: false })
RECURSIVE RowsNewestFirst(_)
RowsNewestFirst(table) ==
    IF DOMAIN table = {} THEN <<>>
    ELSE LET k == CHOOSE k \in DOMAIN table :
                    \A j \in DOMAIN table :
                        table[j].created_at <= table[k].created_at
         IN <<table[k]>> \o RowsNewestFirst(Remove(table, k))

dbSelectAll(table, fail) ==
    IF fail THEN [data |-> <<>>, error |-> TransportError, table |-> table]
    ELSE [data |-> RowsNewestFirst(table), error |-> NoError,
          table |-> table]

(***************************************************************************)
(* PatientService, one operator per method and storage mode.  Each answers *)
(* the outcome of the call and the store it leaves.                        *)
(***************************************************************************)
Outcome(r, s) == [result |-> r, store |-> s]

RECURSIVE PatientsNewestFirst(_)
PatientsNewestFirst(map) ==
    IF DOMAIN map = {} THEN <<>>
    ELSE LET k == CHOOSE k \in DOMAIN map :
                    \A j \in DOMAIN map : map[j].createdAt <= map[k].createdAt
         IN <<map[k]>> \o PatientsNewestFirst(Remove(map, k))

RECURSIVE RowsFromDbFormat(_)
RowsFromDbFormat(rows) ==
    IF rows = <<>> THEN <<>>
    ELSE <<fromDbFormat(Head(rows))>> \o RowsFromDbFormat(Tail(rows))

\* getAllPatients, NO_DB
getAllPatientsNoDb(map) == Outcome(ReturnedList(PatientsNewestFirst(map)), map)

\* getAllPatients, database
getAllPatientsDb(table, fail) ==
    LET a == dbSelectAll(table, fail)
    IN IF a.error # NoError THEN Outcome(ClientError(a.error), a.table)
       ELSE Outcome(ReturnedList(RowsFromDbFormat(a.data)), a.table)

\* getPatientById, NO_DB
getPatientByIdNoDb(map, id) ==
    IF id \notin DOMAIN map THEN Outcome(NotFound, map)
    ELSE Outcome(Returned(map[id]), map)

\* getPatientById, database
getPatientByIdDb(table, id, fail) ==
    LET a == dbSelectSingle(table, id, fail)
    IN IF a.error # NoError \/ a.data = NoRow THEN Outcome(NotFound, a.table)
       ELSE Outcome(Returned(fromDbFormat(a.data)), a.table)

\* createPatient: the patient built from the request at clock reading t
NewPatient(patientData, t) ==
    [id |-> PatientId(t),
     name |-> patientData.name,
     history |-> JsOr(JoinedHistory(patientData), ""),
     date |-> DateOf(t),
     index |-> ToString(t),
     biopsyConfirmed |-> JsFalse,
     doctor |-> "Unknown",
     createdAt |-> t]

\* (variant: an identifier already in the map is left alone)
createPatientNoDbKeepFirst(map, patient) ==
    IF patient.id \in DOMAIN map THEN Outcome(Returned(map[patient.id]), map)
    ELSE Outcome(Returned(patient), Put(map, patient.id, patient))

\* createPatient, NO_DB
createPatientNoDb(map, patient) ==
    Outcome(Returned(patient), Put(map, patient.id, patient))

\* (variant: answers the patient it built, not the row that was stored)
createPatientDbReturnsBuilt(table, patient, fail, t) ==
    LET a == dbInsert(table, toDbFormat(patient), fail, t)
    IN IF a.error # NoError THEN Outcome(ClientError(a.error), a.table)
       ELSE Outcome(Returned(patient), a.table)

\* createPatient, database
createPatientDb(table, patient, fail, t) ==
    LET a == dbInsert(table, toDbFormat(patient), fail, t)
    IN IF a.error # NoError THEN Outcome(ClientError(a.error), a.table)
       ELSE Outcome(Returned(fromDbFormat(a.data)), a.table)

\* (variant: name taken from the request without falling back)
updatePatientNoDbNoFallback(map, id, data) ==
    IF id \in DOMAIN map
    THEN Outcome(Returned([map[id] EXCEPT !.name = NameOf(data)]),
                 Put(map, id, [map[id] EXCEPT !.name = NameOf(data)]))
    ELSE Outcome(NotFound, map)

\* updatePatient, NO_DB
updatePatientNoDb(map, id, data) ==
    IF id \notin DOMAIN map THEN Outcome(NotFound, map)
    ELSE LET existingPatient == map[id]
             updatedPatient ==
                 [existingPatient EXCEPT
                    !.name = JsOr(NameOf(data), existingPatient.name),
                    !.history = JsOr(JoinedHistory(data),
                                     existingPatient.history)]
         IN Outcome(Returned(updatedPatient), Put(map, id, updatedPatient))

\* updatePatient: the PatientUpdate payload built from the request
UpdatePayload(data) ==
    [hasName |-> ~Falsy(NameOf(data)),
     name |-> NameOf(data),
     hasHistory |-> data.hasMedicalHistory,
     history |-> JoinedHistory(data)]

\* updatePatient, database
updatePatientDb(table, id, data, fail, emptyAnswersRow) ==
    LET a == dbUpdateSingle(table, UpdatePayload(data), id, fail,
                            emptyAnswersRow)
    IN IF a.error # NoError \/ a.data = NoRow THEN Outcome(NotFound, a.table)
       ELSE Outcome(Returned(fromDbFormat(a.data)), a.table)

\* (variant: the answer of Map.delete is not looked at)
deletePatientNoDbUnchecked(map, id) == Outcome(ReturnedVoid, Remove(map, id))

\* deletePatient, NO_DB
deletePatientNoDb(map, id) ==
    IF id \notin DOMAIN map THEN Outcome(NotFound, map)
    ELSE Outcome(ReturnedVoid, Remove(map, id))

\* deletePatient, database
deletePatientDb(table, id, fail) ==
    LET a == dbDeleteSingle(table, id, fail)
    IN IF a.error # NoError \/ a.data = NoRow THEN Outcome(NotFound, a.table)
       ELSE Outcome(ReturnedVoid, a.table)

(***************************************************************************)
(* The calls as actions.  isNoDB() selects the branch; with both modes run *)
(* side by side the call is made in each.                                  *)
(***************************************************************************)
Call(op, id, data, fail) ==
    [op |-> op, id |-> id, hasName |-> data.hasName, name |-> data.name,
     hasMedicalHistory |-> data.hasMedicalHistory,
     medicalHistory |-> data.medicalHistory, dbFail |-> fail]

\* Of an update request, the call record keeps which fields it carried.
Carried(data) == [data EXCEPT !.name = "", !.medicalHistory = <<>>]

isNoDB == "NO_DB" \in modes
isDb == "DB" \in modes

\* The database client can fail only where it is called.  Side by side, the
\* two modes are compared on the calls the database serves.
Failures == IF isDb /\ ~isNoDB THEN BOOLEAN ELSE {FALSE}

Untrack(tracked, id) == IF tracked.id = id THEN NoPatient ELSE tracked

getAllPatients(fail) ==
    LET m == getAllPatientsNoDb(memoryPatients)
        d == getAllPatientsDb(dbPatients, fail)
    IN /\ lastCall' = Call("getAllPatients", Undefined, NoData, fail)
       /\ memResult' = IF isNoDB THEN m.result ELSE NoResult
       /\ dbResult' = IF isDb THEN d.result ELSE NoResult
       /\ UNCHANGED <<modes, now, memoryPatients, dbPatients, trackedMem,
                      trackedDb, replacedMem>>
       /\ UNCHANGED <<uploadVars, diagVars, concVars>>

getPatientById(id, fail) ==
    LET m == getPatientByIdNoDb(memoryPatients, id)
        d == getPatientByIdDb(dbPatients, id, fail)
    IN /\ lastCall' = Call("getPatientById", id, NoData, fail)
       /\ memResult' = IF isNoDB THEN m.result ELSE NoResult
       /\ dbResult' = IF isDb THEN d.result ELSE NoResult
       /\ UNCHANGED <<modes, now, memoryPatients, dbPatients, trackedMem,
                      trackedDb, replacedMem>>
       /\ UNCHANGED <<uploadVars, diagVars, concVars>>

createPatient(patientData, fail) ==
    LET patient == NewPatient(patientData, now)
        m == createPatientNoDb(memoryPatients, patient)
        d == createPatientDb(dbPatients, patient, fail, now)
        data == [hasName |-> TRUE, name |-> patientData.name,
                 hasMedicalHistory |-> patientData.hasMedicalHistory,
                 medicalHistory |-> patientData.medicalHistory]
    IN /\ lastCall' = Call("createPatient", patient.id, data, fail)
       /\ memoryPatients' = IF isNoDB THEN m.store ELSE memoryPatients
       /\ dbPatients' = IF isDb THEN d.store ELSE dbPatients
       /\ memResult' = IF isNoDB THEN m.result ELSE NoResult
       /\ dbResult' = IF isDb THEN d.result ELSE NoResult
       /\ trackedMem' = IF isNoDB /\ trackedMem = NoPatient
                        THEN m.result.patient ELSE trackedMem
       /\ replacedMem' = (replacedMem
                          \/ (isNoDB /\ trackedMem.id = patient.id))
       /\ trackedDb' = IF isDb /\ d.result.status = "ok"
                          /\ trackedDb = NoPatient
                       THEN d.result.patient ELSE trackedDb
       /\ UNCHANGED <<modes, now>>
       /\ UNCHANGED <<uploadVars, diagVars, concVars>>

updatePatient(id, data, fail, emptyAnswersRow) ==
    LET m == updatePatientNoDb(memoryPatients, id, data)
        d == updatePatientDb(dbPatients, id, data, fail, emptyAnswersRow)
    IN /\ lastCall' = Call("updatePatient", id, Carried(data), fail)
       /\ memoryPatients' = IF isNoDB THEN m.store ELSE memoryPatients
       /\ dbPatients' = IF isDb THEN d.store ELSE dbPatients
       /\ memResult' = IF isNoDB THEN m.result ELSE NoResult
       /\ dbResult' = IF isDb THEN d.result ELSE NoResult
       /\ trackedMem' = Untrack(trackedMem, id)
       /\ trackedDb' = Untrack(trackedDb, id)
       /\ replacedMem' = (replacedMem /\ trackedMem.id # id)
       /\ UNCHANGED <<modes, now>>
       /\ UNCHANGED <<uploadVars, diagVars, concVars>>

deletePatient(id, fail) ==
    LET m == deletePatientNoDb(memoryPatients, id)
        d == deletePatientDb(dbPatients, id, fail)
    IN /\ lastCall' = Call("deletePatient", id, NoData, fail)
       /\ memoryPatients' = IF isNoDB THEN m.store ELSE memoryPatients
       /\ dbPatients' = IF isDb THEN d.store ELSE dbPatients
       /\ memResult' = IF isNoDB THEN m.result ELSE NoResult
       /\ dbResult' = IF isDb THEN d.result ELSE NoResult
       /\ trackedMem' = Untrack(trackedMem, id)
       /\ trackedDb' = Untrack(trackedDb, id)
       /\ replacedMem' = (replacedMem /\ trackedMem.id # id)
       /\ UNCHANGED <<modes, now>>
       /\ UNCHANGED <<uploadVars, diagVars, concVars>>

\* The clock advances between calls.
Tick ==
    /\ now < MaxTime
    /\ now' = now + 1
    /\ UNCHANGED <<modes, memoryPatients, dbPatients, lastCall, memResult,
                   dbResult, trackedMem, trackedDb, replacedMem>>
    /\ UNCHANGED <<uploadVars, diagVars, concVars>>

EmptyMap == [k \in {} |-> NoPatient]

InitPatients ==
    /\ now = 0
    /\ memoryPatients = EmptyMap
    /\ dbPatients = EmptyMap
    /\ lastCall = Call("none", Undefined, NoData, FALSE)
    /\ memResult = NoResult
    /\ dbResult = NoResult
    /\ trackedMem = NoPatient
    /\ trackedDb = NoPatient
    /\ replacedMem = FALSE

\* An update that sets no column: both answers of the client are possible.
EmptyAnswers(data) ==
    IF isDb /\ ~UpdatePayload(data).hasName /\ ~UpdatePayload(data).hasHistory
    THEN BOOLEAN ELSE {TRUE}

PatientNext ==
    \/ \E fail \in Failures : getAllPatients(fail)
    \/ \E id \in AllIds, fail \in Failures : getPatientById(id, fail)
    \/ \E data \in CreateRequests, fail \in Failures : createPatient(data, fail)
    \/ \E id \in AllIds, data \in UpdateRequests, fail \in Failures :
          \E emptyAnswersRow \in EmptyAnswers(data) :
             updatePatient(id, data, fail, emptyAnswersRow)
    \/ \E id \in AllIds, fail \in Failures : deletePatient(id, fail)
    \/ Tick

(***************************************************************************)
(* UploadService.  A call runs to its end; what the storage client does    *)
(* during it is an input: "ok", "error" (the client answers {error}) or    *)
(* "throws" (the call throws: getSupabase() without credentials, a         *)
(* rejected request).                                                      *)
(***************************************************************************)
Filenames == {"img-" \o ToString(i) : i \in 1..NumFiles}
StorageOutcomes == {"ok", "error", "throws"}
NotCalled == "not-called"

UploadCall(op, filename, storage) ==
    [op |-> op, filename |-> filename, storage |-> storage]

Done(url) == [status |-> "ok", message |-> NoError, imageUrl |-> url]
Threw(msg) == [status |-> "error", message |-> msg, imageUrl |-> Undefined]

\* supabase.storage.from(BUCKET_NAME).getPublicUrl(filename)
PublicUrl(filename) == "oral_images/" \o filename

\* uploadToSupabase: upsert the object, answer its public URL or throw
uploadToSupabase(objects, filename, storage) ==
    IF storage = "ok"
    THEN [threw |-> FALSE, url |-> PublicUrl(filename),
          objects |-> objects \cup {filename}]
    ELSE [threw |-> TRUE, url |-> Undefined, objects |-> objects]

\* The upload middleware stages the received file in the uploads directory.
StageFile(filename) ==
    /\ filename \notin localFiles
    /\ localFiles' = localFiles \cup {filename}
    /\ uploadCall' = UploadCall("stage", filename, NotCalled)
    /\ uploadResult' = Done(Undefined)
    /\ warned' = FALSE
    /\ UNCHANGED <<bucket, processed>>
    /\ UNCHANGED <<patientVars, diagVars, concVars>>

processImage(filename, storage) ==
    LET staged == filename \in localFiles
        up == uploadToSupabase(bucket, filename, storage)
        ok == staged /\ ~up.threw
    IN /\ uploadCall' = UploadCall("processImage", filename,
                                   IF staged THEN storage ELSE NotCalled)
       /\ bucket' = IF staged THEN up.objects ELSE bucket
       /\ uploadResult' = IF ok THEN Done(up.url)
                          ELSE Threw("Failed to process image")
       /\ processed' = IF ok THEN processed \cup {filename} ELSE processed
       /\ warned' = FALSE
       /\ UNCHANGED localFiles
       /\ UNCHANGED <<patientVars, diagVars, concVars>>

\* (variant: the local copy is not removed)
deleteImageKeepsLocal(filename, unlinkThrows, storage) ==
    /\ uploadCall' = UploadCall("deleteImage", filename, storage)
    /\ bucket' = IF storage = "ok" THEN bucket \ {filename} ELSE bucket
    /\ warned' = (storage = "error")
    /\ uploadResult' = IF storage = "throws"
                       THEN Threw("Failed to delete image")
                       ELSE Done(Undefined)
    /\ UNCHANGED <<localFiles, processed>>
    /\ UNCHANGED <<patientVars, diagVars, concVars>>

deleteImage(filename, unlinkThrows, storage) ==
    LET unlinkThrew == filename \in localFiles /\ unlinkThrows
    IN /\ uploadCall' = UploadCall("deleteImage", filename,
                                   IF unlinkThrew THEN NotCalled ELSE storage)
       /\ localFiles' = IF unlinkThrew THEN localFiles
                        ELSE localFiles \ {filename}
       /\ bucket' = IF ~unlinkThrew /\ storage = "ok"
                    THEN bucket \ {filename} ELSE bucket
       /\ warned' = (~unlinkThrew /\ storage = "error")
       /\ uploadResult' = IF unlinkThrew \/ storage = "throws"
                          THEN Threw("Failed to delete image")
                          ELSE Done(Undefined)
       /\ UNCHANGED processed
       /\ UNCHANGED <<patientVars, diagVars, concVars>>

(***************************************************************************)
(* saveBase64Image.  A payload is the text of a data URL cut at the places *)
(* the pattern /^data:image\/([a-zA-Z]+);base64,(.+)$/ looks at: what      *)
(* stands before the type, the type, what stands between the type and the  *)
(* body, and the body; type and body are sequences of characters.  The     *)
(* decoded bytes are not followed: Buffer.from(_, 'base64') never throws.  *)
(***************************************************************************)
Letters ==
    {"a", "b", "c", "d", "e", "f", "g", "h", "i", "j", "k", "l", "m",
     "n", "o", "p", "q", "r", "s", "t", "u", "v", "w", "x", "y", "z",
     "A", "B", "C", "D", "E", "F", "G", "H", "I", "J", "K", "L", "M",
     "N", "O", "P", "Q", "R", "S", "T", "U", "V", "W", "X", "Y", "Z"}

\* the characters "." does not match
LineTerminators == {"\n", "\r"}

Payload(head, type, sep, body) ==
    [head |-> head, type |-> type, sep |-> sep, body |-> body]

Base64Payloads ==
    { Payload("data:image/", <<"j", "p", "e", "g">>, ";base64,", <<"Q", "Q", "=", "=">>),
      Payload("data:image/", <<"p", "n", "g">>, ";base64,", <<"Q", "Q", "=", "=">>),
      Payload("data:text/", <<"p", "n", "g">>, ";base64,", <<"Q", "Q", "=", "=">>),
      Payload("", <<>>, "", <<"Q", "Q", "=", "=">>),
      Payload("data:image/", <<"s", "v", "g", "+", "x", "m", "l">>, ";base64,", <<"Q", "Q", "=", "=">>),
      Payload("data:image/", <<"p", "n", "g">>, ";utf8,", <<"Q", "Q", "=", "=">>),
      Payload("data:image/", <<"p", "n", "g">>, ";base64,", <<>>),
      Payload("data:image/", <<"p", "n", "g">>, ";base64,", <<"Q", "Q", "\n">>) }

\* base64Data.match(/^data:image\/([a-zA-Z]+);base64,(.+)$/)
Matches(payload) ==
    /\ payload.head = "data:image/"
    /\ Len(payload.type) >= 1
    /\ \A i \in 1..Len(payload.type) : payload.type[i] \in Letters
    /\ payload.sep = ";base64,"
    /\ Len(payload.body) >= 1
    /\ \A i \in 1..Len(payload.body) : payload.body[i] \notin LineTerminators

RECURSIVE Chars(_)
Chars(seq) == IF seq = <<>> THEN "" ELSE Head(seq) \o Chars(Tail(seq))

\* matches[1] === 'jpeg' ? 'jpg' : matches[1]
Ext(payload) ==
    LET type == Chars(payload.type)
    IN IF type = "jpeg" THEN "jpg" ELSE type

\* What Date.now() and Math.random() put into a generated name; nothing in
\* the code keeps two calls from drawing the same.
Stamps == {"1_x"}

\* `seg_${Date.now()}_${Math.random().toString(36).substring(7)}.${ext}`
SegName(stamp, ext) == "seg_" \o stamp \o "." \o ext

Base64Call(payload, filename, storage) ==
    [op |-> "saveBase64Image", filename |-> filename, storage |-> storage,
     payload |-> payload]

\* (variant: the local file is removed again when the upload fails)
saveBase64ImageCleansUp(payload, stamp, writeThrows, storage) ==
    LET matched == Matches(payload)
        filename == IF matched THEN SegName(stamp, Ext(payload)) ELSE Undefined
        wrote == matched /\ ~writeThrows
        up == uploadToSupabase(bucket, filename, storage)
        ok == wrote /\ ~up.threw
    IN /\ uploadCall' = Base64Call(payload, filename,
                                   IF wrote THEN storage ELSE NotCalled)
       /\ localFiles' = IF ok THEN localFiles \cup {filename}
                        ELSE localFiles \ {filename}
       /\ bucket' = IF wrote THEN up.objects ELSE bucket
       /\ uploadResult' = IF ok THEN Done(up.url)
                          ELSE Threw("Failed to save base64 image")
       /\ warned' = FALSE
       /\ UNCHANGED processed
       /\ UNCHANGED <<patientVars, diagVars, concVars>>

\* writeThrows: fs.writeFileSync throws and leaves no file.
saveBase64Image(payload, stamp, writeThrows, storage) ==
    LET matched == Matches(payload)
        filename == IF matched THEN SegName(stamp, Ext(payload)) ELSE Undefined
        wrote == matched /\ ~writeThrows
        up == uploadToSupabase(bucket, filename, storage)
        ok == wrote /\ ~up.threw
    IN /\ uploadCall' = Base64Call(payload, filename,
                                   IF wrote THEN storage ELSE NotCalled)
       /\ localFiles' = IF wrote THEN localFiles \cup {filename}
                        ELSE localFiles
       /\ bucket' = IF wrote THEN up.objects ELSE bucket
       /\ uploadResult' = IF ok THEN Done(up.url)
                          ELSE Threw("Failed to save base64 image")
       /\ warned' = FALSE
       /\ UNCHANGED processed
       /\ UNCHANGED <<patientVars, diagVars, concVars>>

InitUpload ==
    /\ localFiles = {}
    /\ bucket = {}
    /\ uploadCall = UploadCall("none", Undefined, NotCalled)
    /\ uploadResult = Done(Undefined)
    /\ warned = FALSE
    /\ processed = {}

UploadNext ==
    \/ \E f \in Filenames : StageFile(f)
    \/ \E f \in Filenames, storage \in StorageOutcomes : processImage(f, storage)
    \/ \E f \in Filenames, unlinkThrows \in BOOLEAN,
          storage \in StorageOutcomes : deleteImage(f, unlinkThrows, storage)
    \/ \E payload \in Base64Payloads, stamp \in Stamps, writeThrows \in BOOLEAN,
          storage \in StorageOutcomes :
            saveBase64Image(payload, stamp, writeThrows, storage)

(***************************************************************************)
(* The diagnoses table: confidence and the four scores, DECIMAL(5,4) with  *)
(* their CHECK constraints.  A nullable number is a set: {} is NULL, {v}   *)
(* the value v.  Stored values count ten-thousandths (scale 4); the values *)
(* a statement supplies count hundred-thousandths and are rounded to the   *)
(* column's scale before the constraints are evaluated.                    *)
(***************************************************************************)
SqlNull == {}
ScoreColumns == {"olp_score", "olk_score", "ooml_score", "opmd_score"}
NumericColumns == {"confidence"} \cup ScoreColumns

\* DECIMAL(5,4)
DecimalPrecision == 5
DecimalScale == 4

RECURSIVE Pow10(_)
Pow10(n) == IF n = 0 THEN 1 ELSE 10 * Pow10(n - 1)

\* 1.0000 in stored units
One == Pow10(DecimalScale)

\* Rounding of a supplied value to the column's scale, half away from zero.
RoundToScale(v) == IF v >= 0 THEN (v + 5) \div 10 ELSE -((-v + 5) \div 10)

\* numeric field overflow: the rounded value does not fit DECIMAL(5,4)
Overflows(v) ==
    RoundToScale(v) >= Pow10(DecimalPrecision)
    \/ RoundToScale(v) <= -Pow10(DecimalPrecision)

Coerce(x) == {RoundToScale(v) : v \in x}

\* Supplied values: -0.00005, -0.00004, 1.00004, 1.00005, and NULL.
ConfidenceInputs == {{-5}, {-4}, {100004}, {100005}, SqlNull}
ScoreInputs == {{-5}, {100004}, {100005}, SqlNull}

InputsOf(c) == IF c = "confidence" THEN ConfidenceInputs ELSE ScoreInputs

\* DiagnosisInsert / DiagnosisUpdate: the columns a statement supplies
\* (one or two of them), each with its value.
ColumnSets == {cs \in SUBSET NumericColumns : Cardinality(cs) \in {1, 2}}
Payloads ==
    UNION {{p \in [cs -> ConfidenceInputs \cup ScoreInputs] :
               \A c \in cs : p[c] \in InputsOf(c)} : cs \in ColumnSets}

\* confidence ... CHECK (confidence >= 0 AND confidence <= 1)
ConfidenceCheck(x) == \A v \in x : v >= 0 /\ v <= One
\* (variant: the upper bound is not checked)
ScoreCheckNoUpper(x) == x = SqlNull \/ \A v \in x : v >= 0

\* olp_score ... CHECK (olp_score IS NULL OR (olp_score >= 0 AND olp_score <= 1))
ScoreCheck(x) == x = SqlNull \/ \A v \in x : v >= 0 /\ v <= One

\* The constraints of a row: NOT NULL on confidence and the five CHECKs.
RowConstraints(row) ==
    /\ row.confidence # SqlNull
    /\ ConfidenceCheck(row.confidence)
    /\ \A c \in ScoreColumns : ScoreCheck(row[c])

\* The row a statement would store: supplied columns coerced, the others
\* as they are (for an insert: DEFAULT NULL).
Candidate(base, payload) ==
    [c \in NumericColumns |->
        IF c \in DOMAIN payload THEN Coerce(payload[c]) ELSE base[c]]

Accepted(base, payload) ==
    /\ \A c \in DOMAIN payload : \A v \in payload[c] : ~Overflows(v)
    /\ RowConstraints(Candidate(base, payload))

DefaultRow == [c \in NumericColumns |-> SqlNull]

\* The statement supplies a value that is, at the column's scale, outside [0,1].
SuppliesOutOfRange(payload) ==
    \E c \in DOMAIN payload : \E v \in payload[c] :
        RoundToScale(v) < 0 \/ RoundToScale(v) > One

Statement(kind, payload, ok) ==
    [kind |-> kind, outOfRange |-> SuppliesOutOfRange(payload),
     rejected |-> ~ok]

\* INSERT INTO diagnoses
InsertDiagnosis(payload) ==
    LET ok == Accepted(DefaultRow, payload)
        k == Cardinality(DOMAIN diagnoses) + 1
    IN /\ Cardinality(DOMAIN diagnoses) < MaxDiagnoses
       /\ diagnoses' = IF ok THEN Put(diagnoses, k, Candidate(DefaultRow, payload))
                       ELSE diagnoses
       /\ diagStatement' = Statement("insert", payload, ok)
       /\ UNCHANGED <<patientVars, uploadVars, concVars>>

\* UPDATE diagnoses SET ... WHERE id = k
UpdateDiagnosis(k, payload) ==
    LET ok == Accepted(diagnoses[k], payload)
    IN /\ k \in DOMAIN diagnoses
       /\ diagnoses' = IF ok THEN Put(diagnoses, k, Candidate(diagnoses[k], payload))
                       ELSE diagnoses
       /\ diagStatement' = Statement("update", payload, ok)
       /\ UNCHANGED <<patientVars, uploadVars, concVars>>

InitDiag ==
    /\ diagnoses = [k \in {} |-> DefaultRow]
    /\ diagStatement = [kind |-> "none", outOfRange |-> FALSE, rejected |-> FALSE]

DiagNext ==
    \/ \E payload \in Payloads : InsertDiagnosis(payload)
    \/ \E k \in 1..MaxDiagnoses, payload \in Payloads : UpdateDiagnosis(k, payload)

(***************************************************************************)
(* Concurrent updatePatient requests in database-less mode.  The NO_DB     *)
(* branch of updatePatient has no await: from memoryPatients.get to        *)
(* memoryPatients.set it is one turn of the event loop, one step here.     *)
(***************************************************************************)
Request(id, data, pc, existing, result) ==
    [id |-> id, data |-> data, pc |-> pc, existingPatient |-> existing,
     result |-> result]

ConcFrame ==
    UNCHANGED <<modes, now, dbPatients, lastCall, memResult, dbResult,
                trackedMem, trackedDb, replacedMem, uploadVars, diagVars>>

\* (variant: the request yields between its read and its write-back)
updatePatientRequestYields(r) ==
    ConcFrame /\
    LET req == requests[r]
        read == IF req.id \in DOMAIN memoryPatients
                THEN memoryPatients[req.id] ELSE NoPatient
        base == Put(memoryPatients, req.id, req.existingPatient)
        out == updatePatientNoDb(base, req.id, req.data)
    IN IF req.pc = "called"
       THEN /\ requests' = [requests EXCEPT ![r] =
                  Request(req.id, req.data, "read", read, NoResult)]
            /\ UNCHANGED memoryPatients
       ELSE /\ req.pc = "read"
            /\ IF req.existingPatient = NoPatient
               THEN /\ requests' = [requests EXCEPT ![r] =
                          Request(req.id, req.data, "returned",
                                  req.existingPatient, NotFound)]
                    /\ UNCHANGED memoryPatients
               ELSE /\ requests' = [requests EXCEPT ![r] =
                          Request(req.id, req.data, "returned",
                                  req.existingPatient, out.result)]
                    /\ memoryPatients' = out.store

\* One updatePatient call of a request in flight, NO_DB
updatePatientRequest(r) ==
    LET req == requests[r]
        read == IF req.id \in DOMAIN memoryPatients
                THEN memoryPatients[req.id] ELSE NoPatient
        out == updatePatientNoDb(memoryPatients, req.id, req.data)
    IN /\ req.pc = "called"
       /\ requests' = [requests EXCEPT ![r] =
             Request(req.id, req.data, "returned", read, out.result)]
       /\ memoryPatients' = out.store
       /\ ConcFrame

ConcNext == \E r \in DOMAIN requests : updatePatientRequest(r)

\* The map after one createPatient at each clock reading.
RECURSIVE CreatedUpTo(_)
CreatedUpTo(t) ==
    IF t < 0 THEN EmptyMap
    ELSE createPatientNoDb(CreatedUpTo(t - 1),
                           NewPatient([name |-> "", hasMedicalHistory |-> FALSE,
                                       medicalHistory |-> <<>>], t)).store

NoRequests == [r \in {} |-> NoResult]

(***************************************************************************)
(* Specifications.                                                         *)
(***************************************************************************)
InitServices ==
    /\ InitPatients
    /\ InitUpload
    /\ InitDiag
    /\ requests = NoRequests

\* The patient service started in one storage mode.
Init ==
    /\ modes \in {{"NO_DB"}, {"DB"}}
    /\ InitServices

Next == PatientNext

Spec == Init /\ [][Next]_vars

\* Both storage modes on the same calls, the database never failing.
InitBoth ==
    /\ modes = {"NO_DB", "DB"}
    /\ InitServices

SpecBoth == InitBoth /\ [][PatientNext]_vars

\* The upload service and the diagnoses table, with the database configured.
InitDb ==
    /\ modes = {"DB"}
    /\ InitServices

SpecUpload == InitDb /\ [][UploadNext]_vars

SpecDiag == InitDb /\ [][DiagNext]_vars

\* Requests in flight on a map that holds patients, database-less mode.
InitConc ==
    /\ modes = {"NO_DB"}
    /\ now = MaxTime
    /\ memoryPatients = CreatedUpTo(MaxTime - 1)
    /\ dbPatients = EmptyMap
    /\ lastCall = Call("none", Undefined, NoData, FALSE)
    /\ memResult = NoResult
    /\ dbResult = NoResult
    /\ trackedMem = NoPatient
    /\ trackedDb = NoPatient
    /\ replacedMem = FALSE
    /\ InitUpload
    /\ InitDiag
    /\ requests \in [1..NumRequests ->
          {Request(id, data, "called", NoPatient, NoResult) :
              id \in AllIds, data \in UpdateRequests}]

SpecConc == InitConc /\ [][ConcNext]_vars

(***************************************************************************)
(* Properties of the patient service.                                      *)
(***************************************************************************)
\* The fields of a Patient other than its timestamps.
SameFields(p, q) ==
    /\ p.id = q.id
    /\ p.name = q.name
    /\ p.history = q.history
    /\ p.date = q.date
    /\ p.index = q.index
    /\ p.biopsyConfirmed = q.biopsyConfirmed
    /\ p.doctor = q.doctor

\* The step is the service call `op` (the clock stands still during a call).
CallStep(op) == now' = now /\ lastCall'.op = op

FetchesTrackedMem ==
    isNoDB /\ lastCall.op = "getPatientById" /\ trackedMem.id = lastCall.id
FetchesTrackedDb ==
    isDb /\ lastCall.op = "getPatientById" /\ trackedDb.id = lastCall.id
    /\ ~lastCall.dbFail

\* C1 as stated: in either storage mode a getPatientById of the identifier
\* of a patient P that createPatient returned, with no update or delete of
\* that identifier in between, succeeds and returns P's fields (for a fetch
\* the database client answers).
C1_AsStated ==
    /\ FetchesTrackedMem =>
          memResult.status = "ok" /\ SameFields(memResult.patient, trackedMem)
    /\ FetchesTrackedDb =>
          dbResult.status = "ok" /\ SameFields(dbResult.patient, trackedDb)

\* C1, amended: the same, provided also that no createPatient in between
\* returned the same identifier (database-less mode: a create at the same
\* clock reading replaces the record) and that the database client answers
\* the fetch without error.
C1_CreateThenGet ==
    /\ FetchesTrackedMem /\ ~replacedMem =>
          memResult.status = "ok" /\ SameFields(memResult.patient, trackedMem)
    /\ FetchesTrackedDb =>
          dbResult.status = "ok" /\ SameFields(dbResult.patient, trackedDb)

\* A fetch, in database mode, of a created patient after another call.
C1_Witness ==
    /\ FetchesTrackedDb
    /\ dbResult.status = "ok"
    /\ dbResult.patient.name = "A"
    /\ dbResult.patient.history = "x, y"
    /\ Cardinality(DOMAIN dbPatients) = 2

\* What an update leaves of a record: everything but name and history, name
\* when the request has none, history when the request has no medicalHistory.
PatientFrame(old, new, call) ==
    /\ new.id = old.id
    /\ new.date = old.date
    /\ new.index = old.index
    /\ new.biopsyConfirmed = old.biopsyConfirmed
    /\ new.doctor = old.doctor
    /\ new.createdAt = old.createdAt
    /\ ~call.hasName => new.name = old.name
    /\ ~call.hasMedicalHistory => new.history = old.history

RowFrame(old, new, call) ==
    /\ new.patient_id = old.patient_id
    /\ new.date = old.date
    /\ new.index = old.index
    /\ new.biopsy_confirmed = old.biopsy_confirmed
    /\ new.doctor = old.doctor
    /\ new.created_at = old.created_at
    /\ ~call.hasName => new.name = old.name
    /\ ~call.hasMedicalHistory => new.history = old.history

\* C2: updatePatient leaves id, date, index, biopsyConfirmed, doctor and
\* createdAt of the patient as they were, its name when the request has no
\* name, its history when the request has no medicalHistory, and every other
\* stored patient unchanged.
C2_UpdateFrame ==
    [][CallStep("updatePatient") =>
        /\ DOMAIN memoryPatients' = DOMAIN memoryPatients
        /\ \A k \in DOMAIN memoryPatients :
              IF k = lastCall'.id
              THEN PatientFrame(memoryPatients[k], memoryPatients'[k], lastCall')
              ELSE memoryPatients'[k] = memoryPatients[k]
        /\ DOMAIN dbPatients' = DOMAIN dbPatients
        /\ \A k \in DOMAIN dbPatients :
              IF k = lastCall'.id
              THEN RowFrame(dbPatients[k], dbPatients'[k], lastCall')
              ELSE dbPatients'[k] = dbPatients[k]
        /\ memResult'.status = "ok" =>
              memResult'.patient = memoryPatients'[lastCall'.id]]_vars

\* An update without a name changed the history of one of two stored patients.
C2_Witness ==
    /\ isNoDB
    /\ lastCall.op = "updatePatient"
    /\ ~lastCall.hasName /\ lastCall.hasMedicalHistory
    /\ memResult.status = "ok"
    /\ memResult.patient.name = "A"
    /\ memResult.patient.history = "x, y"
    /\ Cardinality(DOMAIN memoryPatients) = 2
    /\ \E k \in DOMAIN memoryPatients : memoryPatients[k].history = ""

\* C3: in both storage modes deletePatient of an identifier that is not
\* stored fails with 'Patient not found' (404) and leaves the stored patients
\* unchanged, a second delete of a deleted identifier included.
C3_DeleteMissing ==
    [][CallStep("deletePatient") =>
        /\ isNoDB /\ lastCall'.id \notin DOMAIN memoryPatients =>
              memResult' = NotFound /\ memoryPatients' = memoryPatients
        /\ isDb /\ lastCall'.id \notin DOMAIN dbPatients =>
              dbResult' = NotFound /\ dbPatients' = dbPatients]_vars

\* A delete, answered by the database, of an identifier that is not stored
\* while another patient is.
C3_Witness ==
    /\ isDb
    /\ lastCall.op = "deletePatient"
    /\ ~lastCall.dbFail
    /\ dbResult = NotFound
    /\ lastCall.id \notin DOMAIN dbPatients
    /\ Cardinality(DOMAIN dbPatients) = 1

\* C4 as stated: in database mode a call answers 404 only when the record
\* does not exist, and when the database client reports a failure the call
\* fails with that client error, unchanged.
C4_AsStated ==
    [][now' = now /\ isDb =>
        /\ dbResult'.status = "404" => lastCall'.id \notin DOMAIN dbPatients
        /\ lastCall'.dbFail => dbResult' = ClientError(TransportError)]_vars

\* C5 as stated: on the same calls, the database never failing, the two
\* storage modes answer the same outcome and the same patient fields.
C5_AsStated ==
    lastCall.op \in {"createPatient", "getPatientById", "updatePatient",
                     "deletePatient"} =>
        /\ memResult.status = dbResult.status
        /\ SameFields(memResult.patient, dbResult.patient)

\* C10: createPatient's identifier is 'patient-<now>' and nothing else; in
\* database-less mode a createPatient at a clock reading whose identifier is
\* already in the map succeeds with that identifier and replaces the record:
\* the map holds as many patients as before and, under the identifier, the
\* patient just built.
C10_CreateCollides ==
    [][CallStep("createPatient") /\ isNoDB =>
        /\ lastCall'.id = PatientId(now)
        /\ memResult'.status = "ok"
        /\ memResult'.patient.id = PatientId(now)
        /\ memoryPatients'[PatientId(now)] = memResult'.patient
        /\ memResult'.patient.name = lastCall'.name
        /\ memResult'.patient.history = Join(lastCall'.medicalHistory)
        /\ PatientId(now) \in DOMAIN memoryPatients =>
              DOMAIN memoryPatients' = DOMAIN memoryPatients]_vars

\* Two creates at one clock reading: one patient stored, not the first one.
C10_Witness ==
    /\ isNoDB
    /\ lastCall.op = "createPatient"
    /\ replacedMem
    /\ trackedMem.id = lastCall.id
    /\ Cardinality(DOMAIN memoryPatients) = 1
    /\ memoryPatients[lastCall.id].name # trackedMem.name
    /\ memResult.patient = memoryPatients[lastCall.id]

(***************************************************************************)
(* Properties of the upload service.                                       *)
(***************************************************************************)
\* C6: once processImage has succeeded for a file, a deleteImage of its
\* filename that completes leaves no local file of that name, and the storage
\* object is removed from the bucket or its removal failed with a client
\* error that was logged as a warning.
C6_UploadThenDelete ==
    (/\ uploadCall.op = "deleteImage"
     /\ uploadResult.status = "ok"
     /\ uploadCall.filename \in processed)
    => /\ uploadCall.filename \notin localFiles
       /\ \/ uploadCall.filename \notin bucket
          \/ uploadCall.storage = "error" /\ warned

\* An uploaded image deleted: gone from the disk and from the bucket, while
\* another uploaded image is still in both.
C6_Witness ==
    /\ uploadCall.op = "deleteImage"
    /\ uploadResult.status = "ok"
    /\ uploadCall.storage = "ok"
    /\ uploadCall.filename \in processed
    /\ uploadCall.filename \notin bucket
    /\ \E f \in processed : f \in bucket /\ f \in localFiles

\* C7 as stated: whenever the removal of the object fails, the client
\* answering an error or the storage call throwing, deleteImage removes the
\* local copy and completes without raising.
C7_AsStated ==
    (/\ uploadCall.op = "deleteImage"
     /\ uploadCall.storage \in {"error", "throws"})
    => /\ uploadResult.status = "ok"
       /\ uploadCall.filename \notin localFiles

\* C11: a saveBase64Image call never removes a local file, and attempts the
\* upload only after it has written the file.  When the payload does not
\* match the data:image/<type>;base64 form the call fails with 'Failed to
\* save base64 image', no file is written and no upload is attempted.  When
\* the payload matches and the storage upload fails, the call fails with the
\* same error, the file it wrote is on disk and the bucket is as it was: the
\* call stored no object for it.
C11_SaveBase64 ==
    [][uploadCall'.op = "saveBase64Image"
       => /\ localFiles \subseteq localFiles'
          /\ uploadCall'.storage # NotCalled
             => uploadCall'.filename \in localFiles'
          /\ ~Matches(uploadCall'.payload)
             => /\ uploadResult' = Threw("Failed to save base64 image")
                /\ localFiles' = localFiles
                /\ bucket' = bucket
                /\ uploadCall'.storage = NotCalled
          /\ (Matches(uploadCall'.payload)
              /\ uploadCall'.storage \in {"error", "throws"})
             => /\ uploadResult' = Threw("Failed to save base64 image")
                /\ uploadCall'.filename \in localFiles'
                /\ bucket' = bucket
                /\ uploadCall'.filename \notin bucket
                   => uploadCall'.filename \notin bucket']_vars

\* A jpeg payload saved as seg_<stamp>.jpg whose upload failed: the file is on
\* disk without an object in the bucket, while a png saved before is in both.
C11_Witness ==
    /\ uploadCall.op = "saveBase64Image"
    /\ Matches(uploadCall.payload)
    /\ uploadCall.storage \in {"error", "throws"}
    /\ uploadResult = Threw("Failed to save base64 image")
    /\ uploadCall.filename = SegName("1_x", "jpg")
    /\ uploadCall.filename \in localFiles
    /\ uploadCall.filename \notin bucket
    /\ SegName("1_x", "png") \in localFiles \cap bucket

(***************************************************************************)
(* Properties of the diagnoses table.                                      *)
(***************************************************************************)
InUnitRange(x) == \A v \in x : v >= 0 /\ v <= One

\* C8: every stored row has a confidence within [0,1] and each score NULL or
\* within [0,1]; a statement that would store a value outside [0,1] is
\* rejected and leaves the table as it was.
C8_ScoresInRange ==
    [][/\ \A k \in DOMAIN diagnoses' :
             /\ diagnoses'[k].confidence # SqlNull
             /\ \A c \in NumericColumns : InUnitRange(diagnoses'[k][c])
       /\ diagStatement'.outOfRange =>
             diagStatement'.rejected /\ diagnoses' = diagnoses]_vars

\* An update with an out-of-range value was rejected on a row that holds a
\* score of 1.0000.
C8_Witness ==
    /\ diagStatement.kind = "update"
    /\ diagStatement.outOfRange
    /\ diagStatement.rejected
    /\ 1 \in DOMAIN diagnoses
    /\ diagnoses[1].olp_score = {One}
    /\ diagnoses[1].confidence = {0}

(***************************************************************************)
(* Properties of concurrent updates in database-less mode.                 *)
(***************************************************************************)
\* The request changes the name and nothing else.
NameOnly(data) ==
    data.hasName /\ ~Falsy(data.name) /\ ~data.hasMedicalHistory
\* The request changes the history and nothing else.
HistoryOnly(data) ==
    ~data.hasName /\ data.hasMedicalHistory /\ ~Falsy(Join(data.medicalHistory))

\* Requests r1 and r2, and no other, have the given control states, r1
\* changing only the name and r2 only the history of one stored patient.
NameAndHistoryRace(r1, r2, pc) ==
    /\ r1 # r2
    /\ requests[r1].id = requests[r2].id
    /\ requests[r1].id \in DOMAIN memoryPatients
    /\ NameOnly(requests[r1].data)
    /\ HistoryOnly(requests[r2].data)
    /\ requests[r1].pc = pc /\ requests[r2].pc = pc
    /\ \A r \in DOMAIN requests \ {r1, r2} : requests[r].pc = "called"

HasBoth(p, r1, r2) ==
    /\ p.name = requests[r1].data.name
    /\ p.history = Join(requests[r2].data.medicalHistory)

\* The record of `id` after the calls `first` then `second`, each in one step.
AfterBoth(id, first, second) ==
    updatePatientNoDb(updatePatientNoDb(memoryPatients, id, first).store,
                      id, second).store[id]

\* C9 as stated: for two requests in flight on one identifier, one changing
\* only name and the other only history, some order of their steps ends with
\* a record that lacks one of the two changes.
C9_AsStated ==
    \A r1, r2 \in DOMAIN requests :
        NameAndHistoryRace(r1, r2, "called") =>
            \/ ~HasBoth(AfterBoth(requests[r1].id, requests[r1].data,
                                  requests[r2].data), r1, r2)
            \/ ~HasBoth(AfterBoth(requests[r1].id, requests[r2].data,
                                  requests[r1].data), r1, r2)

\* C9, amended: in database-less mode updatePatient reads the record and
\* writes it back in one step, so no update is lost: when of two concurrent
\* requests on one identifier one has changed only name and the other only
\* history, the record carries both changes.
C9_NoLostUpdate ==
    \A r1, r2 \in DOMAIN requests :
        NameAndHistoryRace(r1, r2, "returned") =>
            /\ HasBoth(memoryPatients[requests[r1].id], r1, r2)
            /\ requests[r1].result.status = "ok"
            /\ requests[r2].result.status = "ok"

\* Both requests have returned, the history change after the name change.
C9_Witness ==
    \E r1, r2 \in DOMAIN requests :
        /\ NameAndHistoryRace(r1, r2, "returned")
        /\ requests[r2].existingPatient.name = requests[r1].data.name
        /\ requests[r1].existingPatient.history = ""
====
